---- MODULE Spec2Model ----
(***************************************************************************)
(* gitlab-ci-shellcheck: extraction of the shell fragments of a GitLab CI  *)
(* configuration (yaml_to_jobs, script_block_to_str, job_config_to_shell)  *)
(* and the run that feeds them to shellcheck (_main, main).                *)
(*                                                                         *)
(* A Python str is a sequence of one-character strings, so that joining,   *)
(* concatenation and strip() are computed and not assumed.  A Python value *)
(* is a record [t, s, items, v]: t the type, s the text of a str, items    *)
(* the elements of a list (or the path of a ReferenceTag), v the value of  *)
(* a number/boolean or the number of entries of a mapping.                 *)
(***************************************************************************)
EXTENDS Integers, Sequences, FiniteSets, TLC

VARIABLES
    \* script_block_to_str applied to one value
    obj, obj_out,
    \* job_config_to_shell applied to one job
    job_config, shell_out,
    \* yaml_to_jobs applied to one document
    ci_configuration, selected,
    \* position of the three function-level specifications
    fpc,
    \* main / _main
    pc, env, doc, loaded, jobs, idx, script, after_script, script_result,
    after_script_result, job_results, ridx, overall_status, console,
    invocations, ret

fvars == <<obj, obj_out, job_config, shell_out, ci_configuration, selected, fpc>>
rvars == <<pc, env, doc, loaded, jobs, idx, script, after_script, script_result,
           after_script_result, job_results, ridx, overall_status, console,
           invocations, ret>>
vars == <<fvars, rvars>>

----------------------------------------------------------------------------
\* Bounds of the model
MaxListLen == 2
MaxSubLen == 2
MaxEntries == 2

----------------------------------------------------------------------------
\* Python values

NL == <<"\n">>

PyVal(t, s, items, v) == [t |-> t, s |-> s, items |-> items, v |-> v]
PyStr(s) == PyVal("str", s, <<>>, 0)
PyList(items) == PyVal("list", <<>>, items, 0)
PyNone == PyVal("none", <<>>, <<>>, 0)
PyInt(n) == PyVal("int", <<>>, <<>>, n)
PyBool(n) == PyVal("bool", <<>>, <<>>, n)
PyDict(n) == PyVal("dict", <<>>, <<>>, n)
\* a key the mapping does not have
Absent == PyVal("absent", <<>>, <<>>, 0)

ReferenceTag(value) == PyVal("ReferenceTag", <<>>, value, 0)

\* bool(x): ReferenceTag defines neither __bool__ nor __len__ and is always true
Truthy(x) ==
    CASE x.t = "str" -> x.s # <<>>
      [] x.t = "list" -> x.items # <<>>
      [] x.t = "int" -> x.v # 0
      [] x.t = "bool" -> x.v # 0
      [] x.t = "dict" -> x.v # 0
      [] x.t = "ReferenceTag" -> TRUE
      [] OTHER -> FALSE

\* str.strip(): leading and trailing whitespace removed
IsSpace(c) == c \in {" ", "\n", "\t"}

RECURSIVE LStrip(_)
LStrip(s) == IF s # <<>> /\ IsSpace(Head(s)) THEN LStrip(Tail(s)) ELSE s

RECURSIVE RStrip(_)
RStrip(s) ==
    IF s # <<>> /\ IsSpace(s[Len(s)]) THEN RStrip(SubSeq(s, 1, Len(s) - 1)) ELSE s

\* the text left as it is
StripNothing(s) == s

Strip(s) == RStrip(LStrip(s))

\* '\n'.join(parts)
RECURSIVE Join(_)
Join(parts) ==
    IF parts = <<>> THEN <<>>
    ELSE IF Len(parts) = 1 THEN parts[1]
    ELSE parts[1] \o NL \o Join(Tail(parts))

\* dict.get(key): None for a missing key
Get(d, key) == IF d[key] = Absent THEN PyNone ELSE d[key]

\* x or ''
OrEmpty(x) == IF Truthy(x) THEN x ELSE PyStr(<<>>)

----------------------------------------------------------------------------
\* script_block_to_str

Raised == [ok |-> FALSE, s |-> <<>>]
Returned(s) == [ok |-> TRUE, s |-> s]

\* the inner loop over a sub-list: every subpart is a str, or ValueError
RECURSIVE SubParts(_)
SubParts(part) ==
    IF part = <<>> THEN [ok |-> TRUE, parts |-> <<>>]
    ELSE IF Head(part).t = "str"
         THEN LET r == SubParts(Tail(part))
              IN  IF r.ok THEN [ok |-> TRUE, parts |-> <<Head(part).s>> \o r.parts]
                  ELSE r
         ELSE [ok |-> FALSE, parts |-> <<>>]

\* the loop with a ReferenceTag part kept as an empty line
RECURSIVE PartsReferenceLine(_)
PartsReferenceLine(items) ==
    IF items = <<>> THEN [ok |-> TRUE, parts |-> <<>>]
    ELSE LET part == Head(items)
             mine == CASE part.t = "str" -> [ok |-> TRUE, parts |-> <<part.s>>]
                       [] part.t = "list" -> SubParts(part.items)
                       [] part.t = "ReferenceTag" -> [ok |-> TRUE, parts |-> <<<<>>>>]
                       [] OTHER -> [ok |-> TRUE, parts |-> <<>>]
         IN  IF ~mine.ok THEN mine
             ELSE LET r == PartsReferenceLine(Tail(items))
                  IN  IF r.ok THEN [ok |-> TRUE, parts |-> mine.parts \o r.parts]
                      ELSE r

\* the loop over the parts of a list; a part that is neither str, list nor
\* ReferenceTag matches no branch and adds nothing
RECURSIVE Parts(_)
Parts(items) ==
    IF items = <<>> THEN [ok |-> TRUE, parts |-> <<>>]
    ELSE LET part == Head(items)
             mine == CASE part.t = "str" -> [ok |-> TRUE, parts |-> <<part.s>>]
                       [] part.t = "list" -> SubParts(part.items)
                       [] part.t = "ReferenceTag" -> [ok |-> TRUE, parts |-> <<>>]
                       [] OTHER -> [ok |-> TRUE, parts |-> <<>>]
         IN  IF ~mine.ok THEN mine
             ELSE LET r == Parts(Tail(items))
                  IN  IF r.ok THEN [ok |-> TRUE, parts |-> mine.parts \o r.parts]
                      ELSE r

\* the function with a top-level str trimmed
script_block_to_str_trimmed(o) ==
    CASE o.t = "str" -> Returned(Strip(o.s))
      [] o.t = "list" -> LET r == Parts(o.items)
                         IN  IF r.ok THEN Returned(Join(r.parts)) ELSE Raised
      [] o.t = "ReferenceTag" -> Returned(<<>>)
      [] OTHER -> Raised

script_block_to_str(o) ==
    CASE o.t = "str" -> Returned(o.s)
      [] o.t = "list" -> LET r == Parts(o.items)
                         IN  IF r.ok THEN Returned(Join(r.parts)) ELSE Raised
      [] o.t = "ReferenceTag" -> Returned(<<>>)
      [] OTHER -> Raised

----------------------------------------------------------------------------
\* job_config_to_shell

ShellRaised ==
    [ok |-> FALSE, before_script |-> <<>>, script |-> <<>>,
     effective_script |-> <<>>, after_script |-> <<>>]

\* the function with the separator added whatever before_script is
job_config_to_shell_separator(job) ==
    LET b == script_block_to_str(OrEmpty(Get(job, "before_script")))
        s == script_block_to_str(OrEmpty(Get(job, "script")))
        a == script_block_to_str(OrEmpty(Get(job, "after_script")))
    IN  IF ~b.ok \/ ~s.ok \/ ~a.ok THEN ShellRaised
        ELSE [ok |-> TRUE, before_script |-> b.s, script |-> s.s,
              effective_script |-> b.s \o NL \o s.s,
              after_script |-> a.s]

job_config_to_shell(job) ==
    LET b == script_block_to_str(OrEmpty(Get(job, "before_script")))
        s == script_block_to_str(OrEmpty(Get(job, "script")))
        a == script_block_to_str(OrEmpty(Get(job, "after_script")))
    IN  IF ~b.ok \/ ~s.ok \/ ~a.ok THEN ShellRaised
        ELSE [ok |-> TRUE, before_script |-> b.s, script |-> s.s,
              effective_script |-> IF b.s # <<>> THEN b.s \o NL \o s.s ELSE s.s,
              after_script |-> a.s]

----------------------------------------------------------------------------
\* yaml_to_jobs

\* the list with 'default' where the code has 'defaults'
global_keywords_default ==
    <<"default", "variables", "workflow", "image", "stages", "before_script",
      "after_script", "services", "cache">>

global_keywords ==
    <<"defaults", "variables", "workflow", "image", "stages", "before_script",
      "after_script", "services", "cache">>

InList(x, l) == \E i \in 1..Len(l) : l[i] = x

\* a configuration is the sequence of its (key, value) entries in document
\* order; a value is a mapping (t = "dict", m its fields) or something else
RECURSIVE yaml_to_jobs(_)
yaml_to_jobs(items) ==
    IF items = <<>> THEN <<>>
    ELSE LET e == Head(items)
         IN  IF ~InList(e.key, global_keywords) /\ e.value.t = "dict"
             THEN <<e.value.m>> \o yaml_to_jobs(Tail(items))
             ELSE yaml_to_jobs(Tail(items))

----------------------------------------------------------------------------
\* Input domains

SeqsUpTo(S, n) == UNION {[1..k -> S] : k \in 0..n}

Texts == {<<>>, <<"a">>, <<" ">>, <<" ", "b">>, <<"c", "\n">>}
SubTexts == {<<"x">>, <<"y">>}
RefPaths == {<<>>, <<PyStr(<<"x">>), PyStr(<<"y">>)>>}

Strs == {PyStr(t) : t \in Texts}
Refs == {ReferenceTag(p) : p \in RefPaths}
\* values a YAML document can hold that are no script
Others == {PyNone, PyInt(0), PyInt(5), PyBool(0), PyBool(1), PyDict(0), PyDict(1)}

SubElems == {PyStr(t) : t \in SubTexts} \cup {PyInt(5)}
SubLists == {PyList(l) : l \in SeqsUpTo(SubElems, MaxSubLen)}
Children ==
    {PyStr(<<>>), PyStr(<<"a">>), PyStr(<<" ", "b">>), PyStr(<<"c", "\n">>)}
        \cup {ReferenceTag(<<PyStr(<<"x">>), PyStr(<<"y">>)>>)}
        \cup SubLists \cup {PyInt(5), PyNone}
Lists == {PyList(l) : l \in SeqsUpTo(Children, MaxListLen)}

\* the values script_block_to_str is applied to
BlockValues == Strs \cup Refs \cup Lists \cup Others

\* the values of one script field of a job
FieldValues ==
    {Absent} \cup Strs \cup Refs \cup Others
        \cup {PyList(<<>>),
              PyList(<<PyStr(<<"a">>)>>),
              PyList(<<PyStr(<<>>)>>),
              PyList(<<ReferenceTag(<<>>)>>),
              PyList(<<PyStr(<<"a">>), PyList(<<PyStr(<<"x">>), PyStr(<<"y">>)>>)>>),
              PyList(<<PyStr(<<"a">>), ReferenceTag(<<>>), PyStr(<<" ", "b">>)>>),
              PyList(<<PyStr(<<"a">>), PyInt(5)>>),
              PyList(<<PyList(<<PyStr(<<"x">>), PyInt(5)>>)>>)}

JobConfig(b, s, a) == [before_script |-> b, script |-> s, after_script |-> a]
EmptyJob == JobConfig(Absent, Absent, Absent)
JobConfigs == {JobConfig(b, s, a) : b \in FieldValues, s \in FieldValues, a \in FieldValues}

\* top-level values of a document: a mapping with its fields, or not a mapping
DictValue(m) == [t |-> "dict", m |-> m]
NonDict(t) == [t |-> t, m |-> EmptyJob]
Entry(k, v) == [key |-> k, value |-> v]

JobNames == {"build", "test"}
ReservedKeys ==
    {"defaults", "variables", "workflow", "image", "stages", "before_script",
     "after_script", "services", "cache"}
DocKeys == ReservedKeys \cup JobNames
DocValues ==
    {DictValue(EmptyJob), DictValue(JobConfig(Absent, PyStr(<<"a">>), Absent)),
     NonDict("str"), NonDict("list")}
DistinctKeys(items) ==
    \A i, j \in 1..Len(items) : i # j => items[i].key # items[j].key
Configs ==
    {c \in SeqsUpTo({Entry(k, v) : k \in DocKeys, v \in DocValues}, MaxEntries) :
        DistinctKeys(c)}

----------------------------------------------------------------------------
\* The functions applied to one input each

NoResult == [present |-> FALSE, returncode |-> 0, decodable |-> TRUE]
NoReturn == [kind |-> "none", value |-> 0, error |-> "", at |-> ""]
NoEnv == [shellcheck |-> TRUE, git |-> TRUE, no_fix |-> FALSE, path_exists |-> TRUE]
NoDoc == [ismap |-> TRUE, items |-> <<>>]

FnIdle ==
    /\ obj = PyNone
    /\ obj_out = Raised
    /\ job_config = EmptyJob
    /\ shell_out = ShellRaised
    /\ ci_configuration = <<>>
    /\ selected = <<>>
    /\ fpc = "idle"

RunIdle ==
    /\ pc = "idle"
    /\ env = NoEnv
    /\ doc = NoDoc
    /\ loaded = FALSE
    /\ jobs = <<>>
    /\ idx = 0
    /\ script = <<>>
    /\ after_script = <<>>
    /\ script_result = NoResult
    /\ after_script_result = NoResult
    /\ job_results = <<>>
    /\ ridx = 0
    /\ overall_status = 0
    /\ console = <<>>
    /\ invocations = <<>>
    /\ ret = NoReturn

InitBlock ==
    /\ RunIdle
    /\ obj \in BlockValues
    /\ obj_out = Raised
    /\ job_config = EmptyJob
    /\ shell_out = ShellRaised
    /\ ci_configuration = <<>>
    /\ selected = <<>>
    /\ fpc = "call"

CallScriptBlockToStr ==
    /\ fpc = "call"
    /\ obj_out' = script_block_to_str(obj)
    /\ fpc' = "done"
    /\ UNCHANGED <<obj, job_config, shell_out, ci_configuration, selected, rvars>>

SpecBlock == InitBlock /\ [][CallScriptBlockToStr]_vars

InitShell ==
    /\ RunIdle
    /\ obj = PyNone
    /\ obj_out = Raised
    /\ job_config \in JobConfigs
    /\ shell_out = ShellRaised
    /\ ci_configuration = <<>>
    /\ selected = <<>>
    /\ fpc = "call"

CallJobConfigToShell ==
    /\ fpc = "call"
    /\ shell_out' = job_config_to_shell(job_config)
    /\ fpc' = "done"
    /\ UNCHANGED <<obj, obj_out, job_config, ci_configuration, selected, rvars>>

SpecShell == InitShell /\ [][CallJobConfigToShell]_vars

InitJobs ==
    /\ RunIdle
    /\ obj = PyNone
    /\ obj_out = Raised
    /\ job_config = EmptyJob
    /\ shell_out = ShellRaised
    /\ ci_configuration \in Configs
    /\ selected = <<>>
    /\ fpc = "call"

CallYamlToJobs ==
    /\ fpc = "call"
    /\ selected' = yaml_to_jobs(ci_configuration)
    /\ fpc' = "done"
    /\ UNCHANGED <<obj, obj_out, job_config, shell_out, ci_configuration, rvars>>

SpecJobs == InitJobs /\ [][CallYamlToJobs]_vars

----------------------------------------------------------------------------
\* main and _main

\* the jobs of the documents main is run on
RunJobs ==
    {JobConfig(Absent, PyStr(<<"a">>), Absent),
     JobConfig(Absent, Absent, PyStr(<<" ">>)),
     JobConfig(PyStr(<<"a">>),
               PyList(<<PyStr(<<"a">>), PyList(<<PyStr(<<"x">>), PyStr(<<"y">>)>>)>>),
               PyList(<<PyStr(<<"a">>)>>)),
     JobConfig(Absent, PyInt(5), Absent),
     JobConfig(Absent, PyStr(<<"a">>), PyList(<<PyList(<<PyStr(<<"x">>), PyInt(5)>>)>>))}
RunEntries ==
    {Entry(k, v) : k \in JobNames, v \in {DictValue(j) : j \in RunJobs} \cup {NonDict("str")}}
        \cup {Entry("variables", DictValue(EmptyJob))}
Documents ==
    {[ismap |-> TRUE, items |-> c] :
        c \in {c \in SeqsUpTo(RunEntries, MaxEntries) : DistinctKeys(c)}}
        \cup {[ismap |-> FALSE, items |-> <<>>]}

\* what a shellcheck process can end with: its exit status, and whether its
\* stdout is the JSON list of findings _print_job_error reads
CompletedProcess(rc, d) == [present |-> TRUE, returncode |-> rc, decodable |-> d]
ReturnCodes == {0, 1}
Completed == {CompletedProcess(rc, d) : rc \in ReturnCodes, d \in BOOLEAN}

Return(n) == [kind |-> "return", value |-> n, error |-> "", at |-> ""]
Raise(e, f) == [kind |-> "raise", value |-> 0, error |-> e, at |-> f]
Running == [kind |-> "none", value |-> 0, error |-> "", at |-> ""]

Line(kind, job) == [kind |-> kind, job |-> job]
Invocation(job, segment, text, cp) ==
    [job |-> job, segment |-> segment, text |-> text, returncode |-> cp.returncode]

Init ==
    /\ FnIdle
    /\ pc = "main"
    /\ env \in [shellcheck : BOOLEAN, git : BOOLEAN, no_fix : BOOLEAN,
                path_exists : BOOLEAN]
    /\ doc \in Documents
    /\ loaded = FALSE
    /\ jobs = <<>>
    /\ idx = 0
    /\ script = <<>>
    /\ after_script = <<>>
    /\ script_result = NoResult
    /\ after_script_result = NoResult
    /\ job_results = <<>>
    /\ ridx = 0
    /\ overall_status = 0
    /\ console = <<>>
    /\ invocations = <<>>
    /\ ret = Running

ToolsFound == env.shellcheck /\ (env.no_fix \/ env.git)

\* main: shellcheck is not on PATH
MainShellcheckNotFound ==
    /\ pc = "main"
    /\ ~env.shellcheck
    /\ pc' = "raised"
    /\ ret' = Raise("ShellcheckNotFound", "main")
    /\ UNCHANGED <<fvars, env, doc, loaded, jobs, idx, script, after_script,
                   script_result, after_script_result, job_results, ridx,
                   overall_status, console, invocations>>

\* main: git is not on PATH and --no-fix was not given
MainGitNotFound ==
    /\ pc = "main"
    /\ env.shellcheck
    /\ ~env.no_fix /\ ~env.git
    /\ pc' = "raised"
    /\ ret' = Raise("GitNotFound", "main")
    /\ UNCHANGED <<fvars, env, doc, loaded, jobs, idx, script, after_script,
                   script_result, after_script_result, job_results, ridx,
                   overall_status, console, invocations>>

\* main: the file does not exist
MainFileMissing ==
    /\ pc = "main"
    /\ ToolsFound
    /\ ~env.path_exists
    /\ console' = Append(console, Line("file path does not exist", 0))
    /\ pc' = "returned"
    /\ ret' = Return(1)
    /\ UNCHANGED <<fvars, env, doc, loaded, jobs, idx, script, after_script,
                   script_result, after_script_result, job_results, ridx,
                   overall_status, invocations>>

\* main calls _main without the check of the path
MainRunUnchecked ==
    /\ pc = "main"
    /\ ToolsFound
    /\ pc' = "load"
    /\ UNCHANGED <<fvars, env, doc, loaded, jobs, idx, script, after_script,
                   script_result, after_script_result, job_results, ridx,
                   overall_status, console, invocations, ret>>

\* main calls _main
MainRun ==
    /\ pc = "main"
    /\ ToolsFound
    /\ env.path_exists
    /\ pc' = "load"
    /\ UNCHANGED <<fvars, env, doc, loaded, jobs, idx, script, after_script,
                   script_result, after_script_result, job_results, ridx,
                   overall_status, console, invocations, ret>>

\* _main: load_yaml raises for a document that is no mapping
LoadYamlRaises ==
    /\ pc = "load"
    /\ ~doc.ismap
    /\ loaded' = TRUE
    /\ pc' = "raised"
    /\ ret' = Raise("ValueError", "load_yaml")
    /\ UNCHANGED <<fvars, env, doc, jobs, idx, script, after_script, script_result,
                   after_script_result, job_results, ridx, overall_status, console,
                   invocations>>

\* _main: no job is selected
NoJobs ==
    /\ pc = "load"
    /\ doc.ismap
    /\ loaded' = TRUE
    /\ jobs' = yaml_to_jobs(doc.items)
    /\ Len(jobs') < 1
    /\ console' = Append(console, Line("No jobs to check", 0))
    /\ pc' = "returned"
    /\ ret' = Return(1)
    /\ UNCHANGED <<fvars, env, doc, idx, script, after_script, script_result,
                   after_script_result, job_results, ridx, overall_status, invocations>>

\* _main: the jobs are selected and the loop starts
Collected ==
    /\ pc = "load"
    /\ doc.ismap
    /\ loaded' = TRUE
    /\ jobs' = yaml_to_jobs(doc.items)
    /\ Len(jobs') >= 1
    /\ console' = Append(console, Line("Collected jobs to check", 0))
    /\ idx' = 1
    /\ pc' = "job"
    /\ UNCHANGED <<fvars, env, doc, script, after_script, script_result,
                   after_script_result, job_results, ridx, overall_status,
                   invocations, ret>>

\* the loop with a job that does not normalize analysed as an empty script
NormalizeLenient ==
    /\ pc = "job"
    /\ LET r == job_config_to_shell(jobs[idx])
       IN  /\ script' = r.effective_script
           /\ after_script' = r.after_script
           /\ pc' = "script"
           /\ UNCHANGED ret
    /\ UNCHANGED <<fvars, env, doc, loaded, jobs, idx, script_result,
                   after_script_result, job_results, ridx, overall_status, console,
                   invocations>>

\* the loop: job_config_to_shell of the next job
Normalize ==
    /\ pc = "job"
    /\ LET r == job_config_to_shell(jobs[idx])
       IN  IF r.ok
           THEN /\ script' = r.effective_script
                /\ after_script' = r.after_script
                /\ pc' = "script"
                /\ UNCHANGED ret
           ELSE /\ pc' = "raised"
                /\ ret' = Raise("ValueError", "script_block_to_str")
                /\ UNCHANGED <<script, after_script>>
    /\ UNCHANGED <<fvars, env, doc, loaded, jobs, idx, script_result,
                   after_script_result, job_results, ridx, overall_status, console,
                   invocations>>

\* the loop: shellcheck_string on the script, which returns when shellcheck exits
ShellcheckScript ==
    /\ pc = "script"
    /\ \E cp \in Completed :
          /\ script_result' = cp
          /\ invocations' = Append(invocations, Invocation(idx, "script", script, cp))
    /\ pc' = "after_script"
    /\ UNCHANGED <<fvars, env, doc, loaded, jobs, idx, script, after_script,
                   after_script_result, job_results, ridx, overall_status, console, ret>>

\* the loop: shellcheck_string on an after_script that is not blank
ShellcheckAfterScript ==
    /\ pc = "after_script"
    /\ Strip(after_script) # <<>>
    /\ \E cp \in Completed :
          /\ after_script_result' = cp
          /\ invocations' =
                Append(invocations, Invocation(idx, "after_script", after_script, cp))
    /\ pc' = "result"
    /\ UNCHANGED <<fvars, env, doc, loaded, jobs, idx, script, after_script,
                   script_result, job_results, ridx, overall_status, console, ret>>

\* the loop: a blank after_script is not analysed
NoAfterScript ==
    /\ pc = "after_script"
    /\ Strip(after_script) = <<>>
    /\ after_script_result' = NoResult
    /\ pc' = "result"
    /\ UNCHANGED <<fvars, env, doc, loaded, jobs, idx, script, after_script,
                   script_result, job_results, ridx, overall_status, console,
                   invocations, ret>>

JobResult(sr, ar, result) ==
    [script_result |-> sr, after_script_result |-> ar, result |-> result]

\* the result of the job with the after_script result left out
RecordResultScriptOnly ==
    /\ pc = "result"
    /\ LET overall_result == IF script_result.returncode # 0 THEN "fail" ELSE "pass"
       IN  /\ console' = Append(console,
                            Line(IF overall_result = "pass" THEN "." ELSE "F", idx))
           /\ job_results' = Append(job_results,
                                JobResult(script_result, after_script_result, overall_result))
    /\ idx' = idx + 1
    /\ pc' = IF idx < Len(jobs) THEN "job" ELSE "newline"
    /\ UNCHANGED <<fvars, env, doc, loaded, jobs, script, after_script, script_result,
                   after_script_result, ridx, overall_status, invocations, ret>>

\* the loop: the result of the job and its progress symbol
RecordResult ==
    /\ pc = "result"
    /\ LET overall_result ==
               IF \/ script_result.returncode # 0
                  \/ after_script_result.present /\ after_script_result.returncode # 0
               THEN "fail" ELSE "pass"
       IN  /\ console' = Append(console,
                            Line(IF overall_result = "pass" THEN "." ELSE "F", idx))
           /\ job_results' = Append(job_results,
                                JobResult(script_result, after_script_result, overall_result))
    /\ idx' = idx + 1
    /\ pc' = IF idx < Len(jobs) THEN "job" ELSE "newline"
    /\ UNCHANGED <<fvars, env, doc, loaded, jobs, script, after_script, script_result,
                   after_script_result, ridx, overall_status, invocations, ret>>

\* the print() that ends the line of progress symbols
EndProgress ==
    /\ pc = "newline"
    /\ console' = Append(console, Line("newline", 0))
    /\ ridx' = 1
    /\ pc' = "report"
    /\ UNCHANGED <<fvars, env, doc, loaded, jobs, idx, script, after_script,
                   script_result, after_script_result, job_results, overall_status,
                   invocations, ret>>

\* _print_job_error with the after_script block printed whatever its exit status
PrintJobErrorAnyAfter(res, j) ==
    LET sfail == res.script_result.returncode # 0
        afail == res.after_script_result.present
        sout == IF sfail /\ res.script_result.decodable
                THEN <<Line("Script validation error", j)>> ELSE <<>>
    IN  IF sfail /\ ~res.script_result.decodable THEN [ok |-> FALSE, out |-> <<>>]
        ELSE IF afail /\ ~res.after_script_result.decodable THEN [ok |-> FALSE, out |-> sout]
        ELSE [ok |-> TRUE,
              out |-> sout \o IF afail THEN <<Line("after_script: validation error", j)>>
                              ELSE <<>>]

\* _print_job_error: what it prints for job j, and whether json.loads and the
\* join of the messages succeed
PrintJobError(res, j) ==
    LET sfail == res.script_result.returncode # 0
        afail == res.after_script_result.present /\ res.after_script_result.returncode # 0
        sout == IF sfail /\ res.script_result.decodable
                THEN <<Line("Script validation error", j)>> ELSE <<>>
    IN  IF sfail /\ ~res.script_result.decodable THEN [ok |-> FALSE, out |-> <<>>]
        ELSE IF afail /\ ~res.after_script_result.decodable THEN [ok |-> FALSE, out |-> sout]
        ELSE [ok |-> TRUE,
              out |-> sout \o IF afail THEN <<Line("after_script: validation error", j)>>
                              ELSE <<>>]

\* the second loop: one job result
Report ==
    /\ pc = "report"
    /\ ridx <= Len(job_results)
    /\ LET res == job_results[ridx]
       IN  IF res.result # "pass"
           THEN LET p == PrintJobError(res, ridx)
                IN  /\ overall_status' = 1
                    /\ console' = console \o p.out
                    /\ IF p.ok
                       THEN /\ ridx' = ridx + 1
                            /\ UNCHANGED <<pc, ret>>
                       ELSE /\ pc' = "raised"
                            /\ ret' = Raise("JSONDecodeError", "_print_job_error")
                            /\ UNCHANGED ridx
           ELSE /\ ridx' = ridx + 1
                /\ UNCHANGED <<overall_status, console, pc, ret>>
    /\ UNCHANGED <<fvars, env, doc, loaded, jobs, idx, script, after_script,
                   script_result, after_script_result, job_results, invocations>>

\* return overall_status
ReturnStatus ==
    /\ pc = "report"
    /\ ridx > Len(job_results)
    /\ pc' = "returned"
    /\ ret' = Return(overall_status)
    /\ UNCHANGED <<fvars, env, doc, loaded, jobs, idx, script, after_script,
                   script_result, after_script_result, job_results, ridx,
                   overall_status, console, invocations>>

Next ==
    \/ MainShellcheckNotFound
    \/ MainGitNotFound
    \/ MainFileMissing
    \/ MainRun
    \/ LoadYamlRaises
    \/ NoJobs
    \/ Collected
    \/ Normalize
    \/ ShellcheckScript
    \/ ShellcheckAfterScript
    \/ NoAfterScript
    \/ RecordResult
    \/ EndProgress
    \/ Report
    \/ ReturnStatus

Spec == Init /\ [][Next]_vars

----------------------------------------------------------------------------
\* Properties of the three functions

ScriptFields == {"before_script", "script", "after_script"}

\* shapes the type hints allow below the top level
IsStrList(items) == \A i \in 1..Len(items) : items[i].t = "str"
WellShapedChild(c) ==
    \/ c.t \in {"str", "ReferenceTag"}
    \/ c.t = "list" /\ IsStrList(c.items)
WellShaped(x) ==
    \/ x.t \in {"str", "ReferenceTag"}
    \/ x.t = "list" /\ \A i \in 1..Len(x.items) : WellShapedChild(x.items[i])

\* the lines a child of a list stands for
ChildLines(c) ==
    CASE c.t = "str" -> <<c.s>>
      [] c.t = "list" -> [i \in 1..Len(c.items) |-> c.items[i].s]
      [] OTHER -> <<>>

RECURSIVE AllLines(_)
AllLines(items) ==
    IF items = <<>> THEN <<>>
    ELSE AllLines(SubSeq(items, 1, Len(items) - 1)) \o ChildLines(items[Len(items)])

RECURSIVE JoinLines(_)
JoinLines(ls) ==
    IF ls = <<>> THEN <<>>
    ELSE IF Len(ls) = 1 THEN ls[1]
    ELSE JoinLines(SubSeq(ls, 1, Len(ls) - 1)) \o <<"\n">> \o ls[Len(ls)]

\* the text one field normalizes to, when it does
FieldText(x) == script_block_to_str(OrEmpty(IF x = Absent THEN PyNone ELSE x)).s

\* C1: a job that normalizes has combined script before + "\n" + script when
\* the before_script text is non-empty, the script text alone otherwise, and
\* its after-script is the after_script text alone.
C1_CombinedScript ==
    (fpc = "done" /\ shell_out.ok) =>
        LET before_text == FieldText(job_config.before_script)
            script_text == FieldText(job_config.script)
        IN  /\ before_text # <<>> =>
                shell_out.effective_script = before_text \o <<"\n">> \o script_text
            /\ (\/ before_text = <<>>
                \/ job_config.before_script \in {Absent, PyNone, PyStr(<<>>), PyList(<<>>)})
                   => shell_out.effective_script = script_text
            /\ shell_out.after_script = FieldText(job_config.after_script)

C1_Witness ==
    /\ fpc = "done"
    /\ shell_out.ok
    /\ job_config.before_script = PyStr(<<" ", "b">>)
    /\ job_config.script = PyStr(<<"c", "\n">>)
    /\ job_config.after_script = PyStr(<<"a">>)
    /\ shell_out.effective_script = <<" ", "b", "\n", "c", "\n">>
    /\ shell_out.after_script = <<"a">>

\* C2: a list of strings, ReferenceTags and sub-lists of strings becomes the
\* lines of its children other than the ReferenceTags, in order, joined by
\* single newlines.
C2_BlockLines ==
    (fpc = "done" /\ obj.t = "list" /\ WellShaped(obj)) =>
        obj_out = Returned(JoinLines(AllLines(obj.items)))

C2_Witness ==
    /\ fpc = "done"
    /\ obj.t = "list"
    /\ Len(obj.items) = 2
    /\ obj.items[1].t = "ReferenceTag"
    /\ obj.items[2] = PyList(<<PyStr(<<"x">>), PyStr(<<"y">>)>>)
    /\ obj_out = Returned(<<"x", "\n", "y">>)

\* C3: in a job that normalizes, a field that is a ReferenceTag, absent,
\* null, '' or [] has the empty text, and a field that is a str has that
\* str; a job with only such fields always normalizes.
C3_EmptyAndVerbatim ==
    /\ (fpc = "done" /\ shell_out.ok) =>
          \A f \in ScriptFields :
              LET x == job_config[f]
              IN  /\ x.t = "ReferenceTag" => shell_out[f] = <<>>
                  /\ x \in {Absent, PyNone, PyStr(<<>>), PyList(<<>>)} => shell_out[f] = <<>>
                  /\ x.t = "str" => shell_out[f] = x.s
    \* and such fields alone never make the job fail
    /\ (fpc = "done"
          /\ \A f \in ScriptFields :
                \/ job_config[f].t \in {"ReferenceTag", "str"}
                \/ job_config[f] \in {Absent, PyNone, PyList(<<>>)})
          => shell_out.ok

C3_Witness ==
    /\ fpc = "done"
    /\ shell_out.ok
    /\ job_config.before_script = Absent
    /\ job_config.script = ReferenceTag(<<PyStr(<<"x">>), PyStr(<<"y">>)>>)
    /\ job_config.after_script = PyStr(<<" ", "b">>)
    /\ shell_out.effective_script = <<>>
    /\ shell_out.after_script = <<" ", "b">>

\* C4: a job with a field that is present, not null and of no allowed shape
\* does not normalize: job_config_to_shell raises.
C4_MalformedRaises ==
    (fpc = "done"
        /\ \E f \in ScriptFields :
              job_config[f] \notin {Absent, PyNone} /\ ~WellShaped(job_config[f]))
        => ~shell_out.ok

\* C5: yaml_to_jobs returns the values of the entries whose key is not
\* reserved and whose value is a mapping, in document order.
JobEntries(c) ==
    {i \in 1..Len(c) : c[i].key \notin ReservedKeys /\ c[i].value.t = "dict"}

C5_SelectedJobs ==
    fpc = "done" =>
        LET keep == JobEntries(ci_configuration)
        IN  /\ Len(selected) = Cardinality(keep)
            /\ \A i \in keep :
                  selected[Cardinality({j \in keep : j <= i})]
                      = ci_configuration[i].value.m

C5_Witness ==
    /\ fpc = "done"
    /\ Len(ci_configuration) = 2
    /\ ci_configuration[1].key = "test"
    /\ ci_configuration[2].key = "build"
    /\ ci_configuration[1].value = DictValue(JobConfig(Absent, PyStr(<<"a">>), Absent))
    /\ ci_configuration[2].value = DictValue(EmptyJob)
    /\ selected = <<JobConfig(Absent, PyStr(<<"a">>), Absent), EmptyJob>>

----------------------------------------------------------------------------
\* Properties of a run

InMain == pc \notin {"idle", "main", "load"} /\ loaded
Completed_Main == pc = "returned" /\ loaded

IsSymbol(l) == l.kind \in {".", "F"}
IsDetail(l) == l.kind \in {"Script validation error", "after_script: validation error"}
Select(seq, P(_)) ==
    LET F[i \in 0..Len(seq)] ==
            IF i = 0 THEN <<>>
            ELSE IF P(seq[i]) THEN Append(F[i - 1], seq[i]) ELSE F[i - 1]
    IN  F[Len(seq)]
Blank(s) == \A i \in 1..Len(s) : s[i] \in {" ", "\n", "\t"}

\* C6: a job's verdict is fail exactly when one of the analyses invoked for
\* it exited non-zero, and a run that returns returns 1 exactly when no job
\* was selected or some verdict is fail, and 0 otherwise.
C6_VerdictAndStatus ==
    /\ InMain =>
          \A i \in 1..Len(job_results) :
              job_results[i].result = "fail" <=>
                  \E k \in 1..Len(invocations) :
                      invocations[k].job = i /\ invocations[k].returncode # 0
    /\ InMain => \A i \in 1..Len(job_results) : job_results[i].result \in {"pass", "fail"}
    /\ Completed_Main =>
          /\ ret.kind = "return"
          /\ Len(job_results) = Len(jobs)
          /\ ret.value = IF \/ Len(jobs) = 0
                            \/ \E i \in 1..Len(job_results) : job_results[i].result = "fail"
                         THEN 1 ELSE 0

C6_Witness ==
    /\ Completed_Main
    /\ Len(jobs) = 2
    /\ job_results[1].result = "pass"
    /\ job_results[2].script_result.returncode = 0
    /\ job_results[2].after_script_result.present
    /\ job_results[2].after_script_result.returncode = 1
    /\ job_results[2].result = "fail"
    /\ ret.value = 1

\* the invocations the claim expects for job i of the selected jobs
ExpectedCalls(i) ==
    LET r == job_config_to_shell(jobs[i])
    IN  <<[job |-> i, segment |-> "script", text |-> r.effective_script]>>
            \o IF Blank(r.after_script) THEN <<>>
               ELSE <<[job |-> i, segment |-> "after_script", text |-> r.after_script]>>

RECURSIVE ExpectedCallsUpTo(_)
ExpectedCallsUpTo(n) ==
    IF n = 0 THEN <<>> ELSE ExpectedCallsUpTo(n - 1) \o ExpectedCalls(n)

Calls ==
    [k \in 1..Len(invocations) |->
        [job |-> invocations[k].job, segment |-> invocations[k].segment,
         text |-> invocations[k].text]]

\* C7: the invocations of a run are, job after job in selector order, one on
\* the combined script and then one on the after-script exactly when it is
\* not blank (its result absent otherwise); a run that returns has made all
\* of them and a run with no job none; at any moment the invocations made
\* are the first ones of that sequence.
C7_InvocationSequence ==
    /\ pc \in {"idle", "main", "load"} => invocations = <<>>
    /\ InMain =>
          /\ Calls = ExpectedCallsUpTo(Len(job_results))
                        \o IF pc = "after_script" THEN <<ExpectedCalls(idx)[1]>>
                           ELSE IF pc = "result" THEN ExpectedCalls(idx)
                           ELSE <<>>
          /\ \A i \in 1..Len(job_results) :
                job_results[i].after_script_result.present
                    <=> ~Blank(job_config_to_shell(jobs[i]).after_script)
    /\ Completed_Main => Calls = ExpectedCallsUpTo(Len(jobs))

C7_Witness ==
    /\ Completed_Main
    /\ Len(jobs) = 2
    /\ jobs[1] = JobConfig(Absent, Absent, PyStr(<<" ">>))
    /\ Len(invocations) = 3
    /\ invocations[1].text = <<>>
    /\ invocations[1].returncode = 1
    /\ invocations[2].job = 2
    /\ invocations[3].segment = "after_script"
    /\ ~job_results[1].after_script_result.present

\* the detail blocks the claim expects for job i
ExpectedDetails(i) ==
    LET res == job_results[i]
    IN  (IF res.script_result.returncode # 0
         THEN <<Line("Script validation error", i)>> ELSE <<>>)
        \o (IF res.after_script_result.present /\ res.after_script_result.returncode # 0
            THEN <<Line("after_script: validation error", i)>> ELSE <<>>)

RECURSIVE ExpectedDetailsUpTo(_)
ExpectedDetailsUpTo(n) ==
    IF n = 0 THEN <<>> ELSE ExpectedDetailsUpTo(n - 1) \o ExpectedDetails(n)

Symbol(i) == Line(IF job_results[i].result = "pass" THEN "." ELSE "F", i)
AnalysesFinished(i) ==
    /\ \E k \in 1..Len(invocations) :
          invocations[k].job = i /\ invocations[k].segment = "script"
    /\ job_results[i].after_script_result.present =>
          \E k \in 1..Len(invocations) :
              invocations[k].job = i /\ invocations[k].segment = "after_script"

\* C8: the console carries one progress symbol per analysed job, in job
\* order, printed once the job's analyses have returned; every detail block
\* comes after the last symbol, belongs to a job whose verdict is fail and
\* to a result that exited non-zero; a run that returns has printed the
\* symbols of all jobs and then the detail blocks of exactly those results.
C8_ConsoleOrder ==
    /\ InMain /\ Len(jobs) > 0 =>
          /\ Select(console, IsSymbol) = [i \in 1..Len(job_results) |-> Symbol(i)]
          /\ \A i \in 1..Len(job_results) : AnalysesFinished(i)
          /\ \A k \in 1..Len(console) :
                IsDetail(console[k]) =>
                    /\ Len(job_results) = Len(jobs)
                    /\ \A m \in 1..Len(console) : IsSymbol(console[m]) => m < k
                    /\ job_results[console[k].job].result = "fail"
                    /\ console[k] \in
                          {ExpectedDetails(console[k].job)[n] :
                              n \in 1..Len(ExpectedDetails(console[k].job))}
    /\ Completed_Main /\ Len(jobs) = 0 => console = <<Line("No jobs to check", 0)>>
    /\ Completed_Main /\ Len(jobs) > 0 =>
          console = <<Line("Collected jobs to check", 0)>>
                        \o [i \in 1..Len(jobs) |-> Symbol(i)]
                        \o <<Line("newline", 0)>>
                        \o ExpectedDetailsUpTo(Len(jobs))

C8_Witness ==
    /\ Completed_Main
    /\ Len(jobs) = 2
    /\ job_results[1].result = "pass"
    /\ job_results[2].script_result.returncode = 0
    /\ job_results[2].after_script_result.returncode = 1
    /\ console = <<Line("Collected jobs to check", 0), Line(".", 1), Line("F", 2),
                   Line("newline", 0), Line("after_script: validation error", 2)>>

MissingFileReported ==
    /\ pc = "returned"
    /\ ret = Return(1)
    /\ console = <<Line("file path does not exist", 0)>>
    /\ ~loaded
    /\ invocations = <<>>

\* C9 as stated: whenever the path does not exist, main reports it and
\* returns 1 without raising, loading a document or invoking the analyzer.
C9_MissingFileAlwaysReturns ==
    (pc # "main" /\ ~env.path_exists) => MissingFileReported

\* C9 amended: whenever the path does not exist and shellcheck is found, and
\* git is found or --no-fix is given, main reports it and returns 1 without
\* raising, loading a document or invoking the analyzer; with a tool missing
\* main raises instead, and loads and invokes nothing either.
C9_MissingFileReturnsWhenToolsFound ==
    (pc # "main" /\ ~env.path_exists) =>
        /\ ToolsFound => MissingFileReported
        /\ ~ToolsFound => (pc = "raised" /\ ret.kind = "raise" /\ console = <<>>)
        /\ ~loaded
        /\ invocations = <<>>

C9_Witness ==
    /\ ~env.path_exists
    /\ doc.ismap /\ Len(doc.items) > 0
    /\ MissingFileReported

\* C10: in a run whose job i does not normalize, the analyzer is never
\* invoked for job i or a later job, no progress symbol of job i or a later
\* job and no detail block is ever printed, and the run never returns a
\* status: it ends raising the error when it reaches job i.
C10_NormalizationAborts ==
    InMain =>
        \A i \in 1..Len(jobs) :
            ~job_config_to_shell(jobs[i]).ok =>
                /\ \A k \in 1..Len(invocations) : invocations[k].job < i
                /\ \A k \in 1..Len(console) :
                      /\ ~IsDetail(console[k])
                      /\ IsSymbol(console[k]) => console[k].job < i
                /\ Len(job_results) < i
                /\ ret.kind # "return"
                /\ idx <= i
                /\ (idx = i /\ pc # "job") => (pc = "raised" /\ ret.kind = "raise")

C10_Witness ==
    /\ pc = "raised"
    /\ ret = Raise("ValueError", "script_block_to_str")
    /\ idx = 2
    /\ Len(invocations) = 2
    /\ console = <<Line("Collected jobs to check", 0), Line("F", 1)>>

====
